---- MODULE Spec2Model ----
(***************************************************************************)
(* Model of plethysmo.kernel.edf_file_reader.EDFFileReader: the registry   *)
(* of scope ROIs and excluded zones, the search parameters, and the        *)
(* valid-interval search (segmentation scan, exclusion pass, separation    *)
(* pass).                                                                  *)
(*                                                                         *)
(* Units.  Times are in seconds and take integer values; the sampling      *)
(* period dt is the integer Dt.  With integer operands every product and   *)
(* comparison of the source is exact in floating point, and int(t/dt) is   *)
(* the quotient truncated toward zero.  Sample indices are the 0-based     *)
(* indices of the source; Sig(i) reads sample i.                           *)
(***************************************************************************)
EXTENDS Integers, Sequences, FiniteSets, TLC

VARIABLES
    signal,             \* self._signal, the normalised samples
    times,              \* self._times, the time axis
    rois,               \* self._rois, insertion-ordered: Seq of [name, roi]
    excluded_zones,     \* self._excluded_zones, insertion-ordered
    valid_intervals,    \* self._valid_intervals: a mapping or (after reset) a list
    signal_duration,    \* self._signal_duration
    signal_separation,  \* self._signal_separation
    pc,                 \* position inside update_valid_intervals: idle, scan, filter
    k,                  \* index of the ROI being scanned / of the name being filtered
    comp,               \* the outer scan index of update_valid_intervals
    last                \* the most recent call and how it ended

vars == <<signal, times, rois, excluded_zones, valid_intervals, signal_duration,
          signal_separation, pc, k, comp, last>>

----------------------------------------------------------------------------
(* Bounds of the model *)

\* number of samples of the loaded signal
SigLen == 6
\* the sampling period dt, in seconds
Dt == 2

\* the constructor's defaults
DefaultDuration == 5
DefaultSeparation == 15

----------------------------------------------------------------------------
(* Values *)

\* amplitudes of a normalised signal
Amplitudes == {-1, 1}

\* a normalised signal has minimum -1 and maximum 1
NormalisedSignals ==
    {s \in [1..SigLen -> Amplitudes] : (\E i \in 1..SigLen : s[i] = -1)
                                       /\ (\E i \in 1..SigLen : s[i] = 1)}

\* not-a-number, the quotient 0/0 of the autoscaling of a flat recording: a
\* value apart from every amplitude, tested for before any comparison
NaN == -100

\* the autoscaling of __init__: ((s - mini) / (maxi - mini) - 0.5) * 2.  The
\* recordings drawn have two levels at most, so the quotient is 0, 1 or 0/0.
Normalise(raw) ==
    LET mini == CHOOSE x \in {raw[i] : i \in 1..Len(raw)} :
                    \A i \in 1..Len(raw) : x <= raw[i]
        maxi == CHOOSE x \in {raw[i] : i \in 1..Len(raw)} :
                    \A i \in 1..Len(raw) : x >= raw[i]
    IN  [i \in 1..Len(raw) |->
           IF maxi - mini = 0 THEN NaN
           ELSE (2 * (raw[i] - mini) - (maxi - mini)) \div (maxi - mini)]

\* np.arange(0, n_points*dt, dt)
TimeAxis(n_points) == [i \in 1..n_points |-> (i - 1) * Dt]

Sig(i) == signal[i + 1]

\* a ROI object: lower corner (t0, a0), upper corner (t1, a1), t0 <= t1, a0 <= a1
MkROI(t0, a0, t1, a1) == [kind |-> "ROI", t0 |-> t0, a0 |-> a0, t1 |-> t1, a1 |-> a1]

LowerCorner(roi) == <<roi.t0, roi.a0>>
UpperCorner(roi) == <<roi.t1, roi.a1>>

\* isinstance(roi, ROI)
IsROI(obj) == obj.kind = "ROI"

\* int(x / dt): Python's int() truncates toward zero
IntDiv(x, d) == IF x >= 0 THEN x \div d ELSE -((-x) \div d)

Max(a, b) == IF a >= b THEN a ELSE b
Min(a, b) == IF a <= b THEN a ELSE b

\* the window of a ROI in sample indices
StartIdx(roi) == Max(IntDiv(LowerCorner(roi)[1], Dt), 0)
EndIdx(roi) == Min(IntDiv(UpperCorner(roi)[1], Dt), Len(signal) - 1)

ThresholdMin(roi) == LowerCorner(roi)[2]
ThresholdMax(roi) == UpperCorner(roi)[2]

\* s >= threshold_min and s <= threshold_max (False on not-a-number)
InBand(s, roi) == s # NaN /\ s >= ThresholdMin(roi) /\ s <= ThresholdMax(roi)

\* variant: the upper threshold is not tested
OutOfBandBelowOnly(s, roi) == s # NaN /\ s < ThresholdMin(roi)

\* s1 < threshold_min or s1 > threshold_max (False on not-a-number)
OutOfBand(s, roi) == s # NaN /\ (s < ThresholdMin(roi) \/ s > ThresholdMax(roi))

\* variant: the duration test is not strict
DurationReached(n) == n * Dt >= signal_duration

\* (n)*self._dt > self._signal_duration
DurationExceeded(n) == n * Dt > signal_duration

----------------------------------------------------------------------------
(* Ordered mappings (collections.OrderedDict) as sequences of [name, val] *)

Names(d) == {d[i].name : i \in 1..Len(d)}

HasKey(d, name) == name \in Names(d)

IndexOf(d, name) == CHOOSE i \in 1..Len(d) : d[i].name = name

\* d[name]
Get(d, name) == d[IndexOf(d, name)].val

\* d[name] = val: an existing key keeps its position, a new key goes last
DictSet(d, name, val) ==
    IF HasKey(d, name)
    THEN [d EXCEPT ![IndexOf(d, name)].val = val]
    ELSE Append(d, [name |-> name, val |-> val])

\* del d[name]
DictDel(d, name) == SelectSeq(d, LAMBDA e : e.name # name)

EmptyDict == [kind |-> "dict", items |-> <<>>]
EmptyList == [kind |-> "list", items |-> <<>>]

----------------------------------------------------------------------------
(* update_valid_intervals: the segmentation scan *)

\* variant: a run still in band at the window end is closed there and kept
RECURSIVE InnerLoopKeepOpen(_, _, _, _)
InnerLoopKeepOpen(start, comp1, end_roi, roi) ==
    IF ~(comp1 < end_roi)
    THEN [comp1 |-> comp1,
          found |-> IF DurationExceeded(comp1 - start)
                    THEN << <<start, comp1>> >> ELSE <<>>]
    ELSE IF OutOfBand(Sig(comp1), roi)
         THEN [comp1 |-> comp1,
               found |-> IF DurationExceeded(comp1 - start)
                         THEN << <<start, comp1>> >> ELSE <<>>]
         ELSE IF DurationExceeded(comp1 - start)
              THEN [comp1 |-> comp1, found |-> << <<start, comp1>> >>]
              ELSE InnerLoopKeepOpen(start, comp1 + 1, end_roi, roi)

\* The inner while loop started at an in-band sample `start`: where it leaves
\* comp1 and the interval it appended, if any.
RECURSIVE InnerLoop(_, _, _, _)
InnerLoop(start, comp1, end_roi, roi) ==
    IF ~(comp1 < end_roi)
    THEN [comp1 |-> comp1, found |-> <<>>]
    ELSE IF OutOfBand(Sig(comp1), roi)
         THEN [comp1 |-> comp1,
               found |-> IF DurationExceeded(comp1 - start)
                         THEN << <<start, comp1>> >> ELSE <<>>]
         ELSE IF DurationExceeded(comp1 - start)
              THEN [comp1 |-> comp1, found |-> << <<start, comp1>> >>]
              ELSE InnerLoop(start, comp1 + 1, end_roi, roi)

\* variant: the outer scan resumes one past the index the inner loop stopped at
OuterIterationSkip(c, roi) ==
    IF InBand(Sig(c), roi)
    THEN LET r == InnerLoop(c, c, EndIdx(roi), roi)
         IN  [comp1 |-> r.comp1 + 1, found |-> r.found]
    ELSE [comp1 |-> c + 1, found |-> <<>>]

\* One iteration of the outer while loop at index c.
OuterIteration(c, roi) ==
    IF InBand(Sig(c), roi)
    THEN InnerLoop(c, c, EndIdx(roi), roi)
    ELSE [comp1 |-> c + 1, found |-> <<>>]

\* The outer while loop run from index c to its exit: the intervals it appends.
\* (Defined when signal_duration >= 0; a negative duration never leaves c.)
RECURSIVE ScanFrom(_, _)
ScanFrom(c, roi) ==
    IF ~(c < EndIdx(roi)) THEN <<>>
    ELSE LET r == OuterIteration(c, roi)
         IN  r.found \o ScanFrom(r.comp1, roi)

\* the candidates of a ROI: the scan started at the beginning of its window
Candidates(roi) == ScanFrom(StartIdx(roi), roi)

----------------------------------------------------------------------------
(* update_valid_intervals: the exclusion pass and the separation pass *)

\* variant: the overlap test excludes the bounds
IntersectsStrict(iv, zone) == iv[2] > StartIdx(zone) /\ iv[1] < EndIdx(zone)

\* end >= start_roi and start <= end_roi, for one excluded zone
Intersects(iv, zone) == iv[2] >= StartIdx(zone) /\ iv[1] <= EndIdx(zone)

\* the for/else over the excluded zones: an interval is kept iff no zone breaks
ExclusionPass(intervals) ==
    SelectSeq(intervals,
              LAMBDA iv : ~(\E z \in 1..Len(excluded_zones) :
                               Intersects(iv, excluded_zones[z].val)))

\* variant: the gap is measured from the start of the current interval
FarEnoughFromStart(current_interval, next_interval) ==
    (next_interval[1] - current_interval[1]) * Dt >= signal_separation

\* duration >= self._signal_separation
FarEnough(current_interval, next_interval) ==
    (next_interval[1] - current_interval[2]) * Dt >= signal_separation

\* the inner while: the first comp1 whose interval is far enough from v[c], or 0
RECURSIVE SepInner(_, _, _)
SepInner(v, c, c1) ==
    IF ~(c1 <= Len(v)) THEN 0
    ELSE IF FarEnough(v[c], v[c1]) THEN c1
    ELSE SepInner(v, c, c1 + 1)

\* variant: after a hit the outer index moves on by one (comp = comp1 left out)
RECURSIVE SepOuterNoJump(_, _, _)
SepOuterNoJump(v, c, temp) ==
    IF ~(c < Len(v)) THEN temp
    ELSE LET c1 == SepInner(v, c, c + 1)
         IN  IF c1 # 0 THEN SepOuterNoJump(v, c + 1, Append(temp, v[c1]))
             ELSE SepOuterNoJump(v, c + 1, temp)

\* the outer while (1-based indices into v)
RECURSIVE SepOuter(_, _, _)
SepOuter(v, c, temp) ==
    IF ~(c < Len(v)) THEN temp
    ELSE LET c1 == SepInner(v, c, c + 1)
         IN  IF c1 # 0 THEN SepOuter(v, c1, Append(temp, v[c1]))
             ELSE SepOuter(v, c + 1, temp)

\* variant: an interval too close to the one before it is merged into it
\* instead of being dropped
RECURSIVE SeparationPassMerge(_)
SeparationPassMerge(v) ==
    IF Len(v) < 2 THEN v
    ELSE IF FarEnough(v[1], v[2])
         THEN <<v[1]>> \o SeparationPassMerge(Tail(v))
         ELSE SeparationPassMerge(<<<<v[1][1], v[2][2]>>>> \o SubSeq(v, 3, Len(v)))

SeparationPass(v) == IF Len(v) >= 2 THEN SepOuter(v, 1, <<v[1]>>) ELSE v

\* the body of the second for loop, for one name
FilterIntervals(intervals) == SeparationPass(ExclusionPass(intervals))

----------------------------------------------------------------------------
(* update_valid_intervals as steps *)

Running(op) == [op |-> op, outcome |-> "running"]
Returned(op) == [op |-> op, outcome |-> "ok"]
Raised(op, exc) == [op |-> op, outcome |-> exc]

\* Entering the first for loop without emptying the list of the first ROI:
\* the candidates of this run are appended to what an earlier run left.
UpdateBeginNoClear ==
    /\ pc = "idle"
    /\ IF valid_intervals.kind = "list"
       THEN /\ last' = Raised("update_valid_intervals",
                              IF rois # <<>> THEN "TypeError" ELSE "AttributeError")
            /\ UNCHANGED <<valid_intervals, pc, k, comp>>
       ELSE IF rois # <<>>
            THEN /\ pc' = "scan"
                 /\ k' = 1
                 /\ comp' = StartIdx(rois[1].val)
                 /\ last' = Running("update_valid_intervals")
                 /\ UNCHANGED valid_intervals
            ELSE /\ pc' = "filter"
                 /\ k' = 1
                 /\ last' = Running("update_valid_intervals")
                 /\ UNCHANGED <<valid_intervals, comp>>
    /\ UNCHANGED <<signal, times, rois, excluded_zones, signal_duration, signal_separation>>

\* Entering the first for loop.  On a list, self._valid_intervals[name] = []
\* raises TypeError; with no ROI the second loop's .items() raises
\* AttributeError on a list.
UpdateBegin ==
    /\ pc = "idle"
    /\ IF valid_intervals.kind = "list"
       THEN /\ last' = Raised("update_valid_intervals",
                              IF rois # <<>> THEN "TypeError" ELSE "AttributeError")
            /\ UNCHANGED <<valid_intervals, pc, k, comp>>
       ELSE IF rois # <<>>
            THEN /\ pc' = "scan"
                 /\ k' = 1
                 /\ valid_intervals' =
                      [valid_intervals EXCEPT
                         !.items = DictSet(@, rois[1].name, <<>>)]
                 /\ comp' = StartIdx(rois[1].val)
                 /\ last' = Running("update_valid_intervals")
            ELSE /\ pc' = "filter"
                 /\ k' = 1
                 /\ last' = Running("update_valid_intervals")
                 /\ UNCHANGED <<valid_intervals, comp>>
    /\ UNCHANGED <<signal, times, rois, excluded_zones, signal_duration, signal_separation>>

\* One iteration of the outer while loop of the ROI being scanned.  A scan
\* that makes no progress appends for ever; the model stops it once the list
\* is longer than any terminating scan can make it.
ScanStep ==
    /\ pc = "scan"
    /\ comp < EndIdx(rois[k].val)
    /\ Len(Get(valid_intervals.items, rois[k].name)) <= Len(signal)
    /\ LET r == OuterIteration(comp, rois[k].val)
       IN  /\ comp' = r.comp1
           /\ valid_intervals' =
                [valid_intervals EXCEPT
                   !.items = DictSet(@, rois[k].name,
                                     Get(@, rois[k].name) \o r.found)]
    /\ UNCHANGED <<signal, times, rois, excluded_zones, signal_duration, signal_separation,
                   pc, k, last>>

\* The outer while loop exits: the next ROI is entered (its list is emptied),
\* or the first for loop is over.
ScanNext ==
    /\ pc = "scan"
    /\ ~(comp < EndIdx(rois[k].val))
    /\ IF k < Len(rois)
       THEN /\ k' = k + 1
            /\ valid_intervals' =
                 [valid_intervals EXCEPT
                    !.items = DictSet(@, rois[k + 1].name, <<>>)]
            /\ comp' = StartIdx(rois[k + 1].val)
            /\ UNCHANGED pc
       ELSE /\ pc' = "filter"
            /\ k' = 1
            /\ UNCHANGED <<valid_intervals, comp>>
    /\ UNCHANGED <<signal, times, rois, excluded_zones, signal_duration, signal_separation,
                   last>>

\* One iteration of the second for loop: the k-th name's intervals are
\* filtered and stored back.
FilterStep ==
    /\ pc = "filter"
    /\ k <= Len(valid_intervals.items)
    /\ valid_intervals' =
         [valid_intervals EXCEPT
            !.items[k].val = FilterIntervals(@)]
    /\ k' = k + 1
    /\ UNCHANGED <<signal, times, rois, excluded_zones, signal_duration, signal_separation,
                   pc, comp, last>>

\* return self._valid_intervals
UpdateReturn ==
    /\ pc = "filter"
    /\ ~(k <= Len(valid_intervals.items))
    /\ pc' = "idle"
    /\ last' = Returned("update_valid_intervals")
    /\ UNCHANGED <<signal, times, rois, excluded_zones, valid_intervals, signal_duration,
                   signal_separation, k, comp>>

----------------------------------------------------------------------------
(* The registry operations *)

\* add_roi without the test on the name: a ROI given under a registered name
\* replaces the one stored and empties its intervals.
AddRoiOverwrite(name, obj) ==
    /\ pc = "idle"
    /\ IF ~IsROI(obj)
       THEN /\ last' = Returned("add_roi")
            /\ UNCHANGED <<rois, valid_intervals>>
       ELSE /\ rois' = DictSet(rois, name, obj)
            /\ IF valid_intervals.kind = "list"
               THEN /\ last' = Raised("add_roi", "TypeError")
                    /\ UNCHANGED valid_intervals
               ELSE /\ valid_intervals' =
                         [valid_intervals EXCEPT !.items = DictSet(@, name, <<>>)]
                    /\ last' = Returned("add_roi")
    /\ UNCHANGED <<signal, times, excluded_zones, signal_duration, signal_separation,
                   pc, k, comp>>

\* add_roi(name, roi).  After reset_valid_intervals the mapping is a list and
\* self._valid_intervals[name] = [] raises TypeError, the ROI already stored.
AddRoi(name, obj) ==
    /\ pc = "idle"
    /\ IF HasKey(rois, name) \/ ~IsROI(obj)
       THEN /\ last' = Returned("add_roi")
            /\ UNCHANGED <<rois, valid_intervals>>
       ELSE /\ rois' = DictSet(rois, name, obj)
            /\ IF valid_intervals.kind = "list"
               THEN /\ last' = Raised("add_roi", "TypeError")
                    /\ UNCHANGED valid_intervals
               ELSE /\ valid_intervals' =
                         [valid_intervals EXCEPT !.items = DictSet(@, name, <<>>)]
                    /\ last' = Returned("add_roi")
    /\ UNCHANGED <<signal, times, excluded_zones, signal_duration, signal_separation,
                   pc, k, comp>>

\* add_excluded_zone(name, roi)
AddExcludedZone(name, obj) ==
    /\ pc = "idle"
    /\ IF HasKey(excluded_zones, name) \/ ~IsROI(obj)
       THEN UNCHANGED excluded_zones
       ELSE excluded_zones' = DictSet(excluded_zones, name, obj)
    /\ last' = Returned("add_excluded_zone")
    /\ UNCHANGED <<signal, times, rois, valid_intervals, signal_duration, signal_separation,
                   pc, k, comp>>

\* delete_excluded_zone(name)
DeleteExcludedZone(name) ==
    /\ pc = "idle"
    /\ IF ~HasKey(excluded_zones, name)
       THEN UNCHANGED excluded_zones
       ELSE excluded_zones' = DictDel(excluded_zones, name)
    /\ last' = Returned("delete_excluded_zone")
    /\ UNCHANGED <<signal, times, rois, valid_intervals, signal_duration, signal_separation,
                   pc, k, comp>>

\* delete_roi that forgets del self._valid_intervals[name]: the ROI goes, its
\* intervals stay.
DeleteRoiKeepIntervals(name) ==
    /\ pc = "idle"
    /\ IF ~HasKey(rois, name)
       THEN UNCHANGED rois
       ELSE rois' = DictDel(rois, name)
    /\ last' = Returned("delete_roi")
    /\ UNCHANGED <<signal, times, excluded_zones, valid_intervals, signal_duration,
                   signal_separation, pc, k, comp>>

\* delete_roi(name).  On a list, del self._valid_intervals[name] raises
\* TypeError, the ROI already deleted.
DeleteRoi(name) ==
    /\ pc = "idle"
    /\ IF ~HasKey(rois, name)
       THEN /\ last' = Returned("delete_roi")
            /\ UNCHANGED <<rois, valid_intervals>>
       ELSE /\ rois' = DictDel(rois, name)
            /\ IF valid_intervals.kind = "list"
               THEN /\ last' = Raised("delete_roi", "TypeError")
                    /\ UNCHANGED valid_intervals
               ELSE /\ valid_intervals' =
                         [valid_intervals EXCEPT !.items = DictDel(@, name)]
                    /\ last' = Returned("delete_roi")
    /\ UNCHANGED <<signal, times, excluded_zones, signal_duration, signal_separation,
                   pc, k, comp>>

\* reset_valid_intervals(): self._valid_intervals = []
ResetValidIntervals ==
    /\ pc = "idle"
    /\ valid_intervals' = EmptyList
    /\ last' = Returned("reset_valid_intervals")
    /\ UNCHANGED <<signal, times, rois, excluded_zones, signal_duration, signal_separation,
                   pc, k, comp>>

----------------------------------------------------------------------------
(* The parameters setter *)

\* float(x) of a field of the params dict: a number, or ValueError
FloatOf(x) ==
    CASE x = "0"  -> [ok |-> TRUE, value |-> 0]
      [] x = "2"  -> [ok |-> TRUE, value |-> 2]
      [] x = "-1" -> [ok |-> TRUE, value |-> -1]
      [] x = "5"  -> [ok |-> TRUE, value |-> 5]
      [] x = "15" -> [ok |-> TRUE, value |-> 15]
      [] OTHER    -> [ok |-> FALSE, value |-> 0]

\* params.get(key, default): the field, or the default as text
GetOr(field, default) == IF field = "absent" THEN default ELSE field

\* reader.parameters = params.  The two fields are converted and assigned one
\* after the other inside the try block; a ValueError becomes
\* EDFFileReaderError.
SetParameters(duration, separation) ==
    /\ pc = "idle"
    /\ LET d == FloatOf(GetOr(duration, "5"))
           s == FloatOf(GetOr(separation, "15"))
       IN  IF ~d.ok
           THEN /\ last' = Raised("parameters", "EDFFileReaderError")
                /\ UNCHANGED <<signal_duration, signal_separation>>
           ELSE /\ signal_duration' = d.value
                /\ IF ~s.ok
                   THEN /\ last' = Raised("parameters", "EDFFileReaderError")
                        /\ UNCHANGED signal_separation
                   ELSE /\ signal_separation' = s.value
                        /\ last' = Returned("parameters")
    /\ UNCHANGED <<signal, times, rois, excluded_zones, valid_intervals, pc, k, comp>>

\* reader.signal_duration = value: stored as given
SetSignalDuration(value) ==
    /\ pc = "idle"
    /\ signal_duration' = value
    /\ last' = Returned("signal_duration")
    /\ UNCHANGED <<signal, times, rois, excluded_zones, valid_intervals,
                   signal_separation, pc, k, comp>>

\* reader.signal_separation = value: stored as given
SetSignalSeparation(value) ==
    /\ pc = "idle"
    /\ signal_separation' = value
    /\ last' = Returned("signal_separation")
    /\ UNCHANGED <<signal, times, rois, excluded_zones, valid_intervals,
                   signal_duration, pc, k, comp>>

----------------------------------------------------------------------------
(* get_filtered_signal *)

\* variant: the band mask is applied to the stored signal itself instead of
\* a transform of it
GetFilteredSignalInPlace(fmin, fmax) ==
    /\ pc = "idle"
    /\ signal' = [i \in 1..Len(signal) |->
                    IF (i - 1) < fmin \/ (i - 1) > fmax THEN 0 ELSE signal[i]]
    /\ last' = Returned("get_filtered_signal")
    /\ UNCHANGED <<times, rois, excluded_zones, valid_intervals,
                   signal_duration, signal_separation, pc, k, comp>>

\* get_filtered_signal(fmin, fmax): the transforms build new arrays from
\* self._signal and len(self._times); no attribute is assigned.  The filtered
\* samples it returns are real numbers and are not represented.
GetFilteredSignal(fmin, fmax) ==
    /\ pc = "idle"
    /\ last' = Returned("get_filtered_signal")
    /\ UNCHANGED <<signal, times, rois, excluded_zones, valid_intervals,
                   signal_duration, signal_separation, pc, k, comp>>

----------------------------------------------------------------------------
(* compute_statistics *)

\* the value of a call that ends without a return statement
None == [kind |-> "None"]

\* The statistics mapping is created empty (line 106), no statement stores
\* the integral and the period computed for an interval into it, and
\* compute_statistics ends without a return statement.
StatisticsReturnValue == None

\* How the loops of compute_statistics end: .items() of a list raises
\* AttributeError, the transform of an empty slice raises ValueError.
StatisticsOutcome ==
    IF valid_intervals.kind = "list" THEN "AttributeError"
    ELSE IF \E i \in 1..Len(valid_intervals.items) :
              \E j \in 1..Len(valid_intervals.items[i].val) :
                 LET iv == valid_intervals.items[i].val[j]
                 IN  Min(iv[2], Len(signal)) - Min(iv[1], Len(signal)) <= 0
         THEN "ValueError"
         ELSE "ok"

ComputeStatistics ==
    /\ pc = "idle"
    /\ last' = [op |-> "compute_statistics", outcome |-> StatisticsOutcome,
                value |-> StatisticsReturnValue]
    /\ UNCHANGED <<signal, times, rois, excluded_zones, valid_intervals, signal_duration,
                   signal_separation, pc, k, comp>>

----------------------------------------------------------------------------
(* The reader: a loaded recording and every call on it *)

\* names and objects the calls are made with
RoiNames == {"r1", "r2"}
ZoneNames == {"z1"}
NotAROI == [kind |-> "tuple"]
RoiObjects == {MkROI(-3, -1, 25, 0), MkROI(3, -1, 12, 0), NotAROI}
ZoneObjects == {MkROI(5, -1, 7, 1), MkROI(0, -1, 1, 1), NotAROI}
DurationFields == {"absent", "2", "-1", "abc"}
SeparationFields == {"absent", "2", "abc"}
DurationValues == {-1, 0, 2}
SeparationValues == {0, 2}
Frequencies == {0, 1}

\* the recordings read from the file: low but for sample SigLen-3 and the last
\* one, low but for the last one, and a flat one
RawRecordings ==
    {[i \in 1..SigLen |-> IF i = SigLen \/ i = SigLen - 2 THEN 7 ELSE 3],
     [i \in 1..SigLen |-> IF i = SigLen THEN 7 ELSE 3],
     [i \in 1..SigLen |-> 3]}

\* the signals of the readers built on them
LoadedSignals == {Normalise(raw) : raw \in RawRecordings}

\* the state __init__ leaves
Init ==
    /\ signal \in LoadedSignals
    /\ times = TimeAxis(Len(signal))
    /\ rois = <<>>
    /\ excluded_zones = <<>>
    /\ valid_intervals = EmptyDict
    /\ signal_duration = DefaultDuration
    /\ signal_separation = DefaultSeparation
    /\ pc = "idle"
    /\ k = 1
    /\ comp = 0
    /\ last = Returned("__init__")

Next ==
    \/ \E name \in RoiNames, obj \in RoiObjects : AddRoi(name, obj)
    \/ \E name \in ZoneNames, obj \in ZoneObjects : AddExcludedZone(name, obj)
    \/ \E name \in RoiNames : DeleteRoi(name)
    \/ \E name \in ZoneNames : DeleteExcludedZone(name)
    \/ ResetValidIntervals
    \/ \E d \in DurationFields, s \in SeparationFields : SetParameters(d, s)
    \/ \E value \in DurationValues : SetSignalDuration(value)
    \/ \E value \in SeparationValues : SetSignalSeparation(value)
    \/ \E fmin \in Frequencies, fmax \in Frequencies : GetFilteredSignal(fmin, fmax)
    \/ ComputeStatistics
    \/ UpdateBegin
    \/ ScanStep
    \/ ScanNext
    \/ FilterStep
    \/ UpdateReturn

Spec == Init /\ [][Next]_vars

----------------------------------------------------------------------------
(* The search on its own: a reader with one or two scope ROIs, at most one  *)
(* excluded zone, and parameters drawn from small sets.                     *)

\* time windows (t0, t1) of the ROIs drawn for the search
ScanWindows == {<<-3, 25>>, <<0, 9>>, <<3, 12>>, <<5, 5>>}
\* amplitude bands (a0, a1)
ScanBands == {<<-1, 0>>, <<0, 1>>, <<-1, 1>>}
ScanROIs == {MkROI(w[1], b[1], w[2], b[2]) : w \in ScanWindows, b \in ScanBands}
\* excluded zones: amplitude is ignored
ScanZones == {MkROI(w[1], -1, w[2], 1) : w \in {<<0, 1>>, <<5, 7>>, <<11, 30>>}}

\* the second ROI, when there is one: the band of the other amplitude
ScanSecondROI == MkROI(3, 0, 12, 1)

ScanDurations == {-1, 0, 2, 5}
ScanSeparations == {0, 2, 4, 15}

InitScan ==
    /\ signal \in NormalisedSignals
    /\ times = TimeAxis(Len(signal))
    /\ \E r \in ScanROIs :
          \/ rois = <<[name |-> "r1", val |-> r]>>
          \/ rois = <<[name |-> "r1", val |-> r], [name |-> "r2", val |-> ScanSecondROI]>>
    /\ \/ excluded_zones = <<>>
       \/ \E z \in ScanZones : excluded_zones = <<[name |-> "z1", val |-> z]>>
    /\ valid_intervals =
          [kind |-> "dict",
           items |-> [i \in 1..Len(rois) |-> [name |-> rois[i].name, val |-> <<>>]]]
    /\ signal_duration \in ScanDurations
    /\ signal_separation \in ScanSeparations
    /\ pc = "idle"
    /\ k = 1
    /\ comp = 0
    /\ last = Returned("add_roi")

NextScan == UpdateBegin \/ ScanStep \/ ScanNext \/ FilterStep \/ UpdateReturn

SpecScan == InitScan /\ [][NextScan]_vars

----------------------------------------------------------------------------
(* Properties of the search *)

\* update_valid_intervals has returned and nothing was called since
AfterUpdate == pc = "idle" /\ last = Returned("update_valid_intervals")

\* the first for loop is over and no list has been filtered yet: every list
\* of valid_intervals holds the candidates of its ROI
ScanDone == pc = "filter" /\ k = 1

\* the intervals stored for the i-th ROI
Stored(i) == Get(valid_intervals.items, rois[i].name)

\* C1: after update_valid_intervals every sample of every stored interval is
\* within the thresholds of the interval's ROI, and the interval lies inside
\* the ROI's time window converted to sample indices.
C1_InBandInsideWindow ==
    AfterUpdate =>
      \A i \in 1..Len(rois) :
        LET roi == rois[i].val
            lo == Max(IntDiv(roi.t0, Dt), 0)
            hi == Min(IntDiv(roi.t1, Dt), Len(signal) - 1)
        IN  \A j \in 1..Len(Stored(i)) :
              LET start == Stored(i)[j][1]
                  end == Stored(i)[j][2]
              IN  /\ \A x \in start..(end - 1) : roi.a0 <= Sig(x) /\ Sig(x) <= roi.a1
                  /\ start >= lo
                  /\ end <= hi

\* C1 witness: an interval of two samples or more is stored for a ROI whose
\* window is clamped and does not start at the first in-band sample.
C1_Witness ==
    /\ AfterUpdate
    /\ rois[1].val.t0 < 0
    /\ rois[1].val.a1 < 1
    /\ \E j \in 1..Len(Stored(1)) :
          /\ Stored(1)[j][2] - Stored(1)[j][1] >= 2
          /\ Stored(1)[j][1] > 0

\* C2 as claimed: every candidate starts at the window start or right after
\* an out-of-band sample (one in-band run gives at most one candidate).
C2_MaximalRuns ==
    ScanDone =>
      \A i \in 1..Len(rois) :
        \A j \in 1..Len(Stored(i)) :
          LET start == Stored(i)[j][1]
          IN  \/ start = StartIdx(rois[i].val)
              \/ OutOfBand(Sig(start - 1), rois[i].val)

\* C2 amended: every candidate starts at the window start, or right after an
\* out-of-band sample, or at the end of the candidate before it: a long
\* in-band run is cut into consecutive candidates.
C2_RunsOrPieces ==
    ScanDone =>
      \A i \in 1..Len(rois) :
        \A j \in 1..Len(Stored(i)) :
          LET start == Stored(i)[j][1]
          IN  \/ start = StartIdx(rois[i].val)
              \/ OutOfBand(Sig(start - 1), rois[i].val)
              \/ j > 1 /\ start = Stored(i)[j - 1][2]

\* C2 witness: one in-band run has given two consecutive candidates.
C2_Witness ==
    /\ ScanDone
    /\ signal_duration >= 0
    /\ \E j \in 2..Len(Stored(1)) :
          /\ Stored(1)[j][1] = Stored(1)[j - 1][2]
          /\ InBand(Sig(Stored(1)[j][1] - 1), rois[1].val)
          /\ InBand(Sig(Stored(1)[j][1]), rois[1].val)

\* C3 as claimed: the sample at the end index of every candidate is out of
\* band.
C3_OnlyClosedRuns ==
    ScanDone =>
      \A i \in 1..Len(rois) :
        \A j \in 1..Len(Stored(i)) :
          OutOfBand(Sig(Stored(i)[j][2]), rois[i].val)

\* C3 amended: every candidate ends before the window end, and the sample at
\* its end index is out of band or is the first index at which the duration of
\* the in-band run exceeds signal_duration.
C3_ClosedOrCut ==
    ScanDone =>
      \A i \in 1..Len(rois) :
        \A j \in 1..Len(Stored(i)) :
          LET start == Stored(i)[j][1]
              end == Stored(i)[j][2]
          IN  /\ end < EndIdx(rois[i].val)
              /\ \/ OutOfBand(Sig(end), rois[i].val)
                 \/ /\ (end - start) * Dt > signal_duration
                    /\ \A m \in start..(end - 1) : (m - start) * Dt <= signal_duration

\* C3 witness: a candidate cut at an in-band sample, in a run that is still
\* in band at the window end.
C3_Witness ==
    /\ ScanDone
    /\ signal_duration > 0
    /\ Stored(1) # <<>>
    /\ LET end == Stored(1)[Len(Stored(1))][2]
       IN  \A x \in end..EndIdx(rois[1].val) : InBand(Sig(x), rois[1].val)

\* C4: after update_valid_intervals two consecutive stored intervals are at
\* least signal_separation seconds apart.
C4_Separated ==
    AfterUpdate =>
      \A i \in 1..Len(rois) :
        \A j \in 2..Len(Stored(i)) :
          (Stored(i)[j][1] - Stored(i)[j - 1][2]) * Dt >= signal_separation

\* C4 witness: with a positive separation, two intervals are kept and a
\* candidate between or after them was dropped.
C4_Witness ==
    /\ AfterUpdate
    /\ signal_separation > 0
    /\ Len(Stored(1)) >= 2
    /\ Len(Stored(1)) < Len(ExclusionPass(Candidates(rois[1].val)))

\* the reference thinning: keep the first interval, then keep a candidate iff
\* it starts at least signal_separation seconds after the end of the last
\* kept interval
RECURSIVE Greedy(_, _, _)
Greedy(v, i, kept) ==
    IF i > Len(v) THEN kept
    ELSE IF (v[i][1] - kept[Len(kept)][2]) * Dt >= signal_separation
         THEN Greedy(v, i + 1, Append(kept, v[i]))
         ELSE Greedy(v, i + 1, kept)

GreedyRef(v) == IF v = <<>> THEN <<>> ELSE Greedy(v, 2, <<v[1]>>)

\* the intervals of a list that overlap no excluded zone, bounds inclusive
NotExcluded(v) ==
    SelectSeq(v, LAMBDA iv :
        \A z \in 1..Len(excluded_zones) :
            LET zone == excluded_zones[z].val
                ex_start == Max(IntDiv(zone.t0, Dt), 0)
                ex_end == Min(IntDiv(zone.t1, Dt), Len(signal) - 1)
            IN  ~(iv[2] >= ex_start /\ iv[1] <= ex_end))

\* C5: the list a filter step stores is the reference thinning of the
\* candidates that survive the exclusion pass.
C5_GreedyThinning ==
    [][(pc = "filter" /\ k <= Len(valid_intervals.items))
         => valid_intervals'.items[k].val
              = GreedyRef(NotExcluded(valid_intervals.items[k].val))]_vars

\* C5 witness: three survivors or more, the search from the first one is
\* exhausted (the outer index moves onto an interval that was not kept), and
\* the filter step has stored the first survivor alone.
C5_Witness ==
    /\ pc = "filter"
    /\ k = 2
    /\ signal_duration >= 0
    /\ LET v == NotExcluded(Candidates(rois[1].val))
       IN  /\ Len(v) >= 3
           /\ \A j \in 2..Len(v) : (v[j][1] - v[1][2]) * Dt < signal_separation
           /\ Stored(1) = <<v[1]>>

\* C6: after update_valid_intervals no stored interval overlaps the index
\* window of an excluded zone, bounds inclusive.
C6_NoOverlapWithExcluded ==
    AfterUpdate =>
      \A i \in 1..Len(rois) :
        \A j \in 1..Len(Stored(i)) :
          \A z \in 1..Len(excluded_zones) :
            LET zone == excluded_zones[z].val
                ex_start == Max(IntDiv(zone.t0, Dt), 0)
                ex_end == Min(IntDiv(zone.t1, Dt), Len(signal) - 1)
            IN  ~(Stored(i)[j][2] >= ex_start /\ Stored(i)[j][1] <= ex_end)

\* C6 witness: a candidate touching an excluded zone at one index only was
\* removed, and another interval was kept.
C6_Witness ==
    /\ AfterUpdate
    /\ signal_duration >= 0
    /\ excluded_zones # <<>>
    /\ Stored(1) # <<>>
    /\ \E c \in 1..Len(Candidates(rois[1].val)) :
          LET iv == Candidates(rois[1].val)[c]
          IN  /\ iv[2] = StartIdx(excluded_zones[1].val)
              /\ \A j \in 1..Len(Stored(1)) : Stored(1)[j] # iv

\* C7: every interval stored after update_valid_intervals lasts strictly
\* longer than signal_duration.
C7_StrictlyLonger ==
    AfterUpdate =>
      \A i \in 1..Len(rois) :
        \A j \in 1..Len(Stored(i)) :
          (Stored(i)[j][2] - Stored(i)[j][1]) * Dt > signal_duration

\* C7 witness: an in-band run closed after exactly signal_duration seconds is
\* not stored, while a longer one is.
C7_Witness ==
    /\ AfterUpdate
    /\ signal_duration > 0
    /\ excluded_zones = <<>>
    /\ signal_separation = 0
    /\ Stored(1) # <<>>
    /\ \E a \in StartIdx(rois[1].val)..EndIdx(rois[1].val) :
         \E b \in a..EndIdx(rois[1].val) :
            /\ b < EndIdx(rois[1].val)
            /\ (b - a) * Dt = signal_duration
            /\ \A x \in a..(b - 1) : InBand(Sig(x), rois[1].val)
            /\ OutOfBand(Sig(b), rois[1].val)
            /\ a = StartIdx(rois[1].val) \/ OutOfBand(Sig(a - 1), rois[1].val)
            /\ \A j \in 1..Len(Stored(1)) : Stored(1)[j][1] # a

----------------------------------------------------------------------------
(* Properties of the reader *)

\* C8 as claimed: while update_valid_intervals is in progress the stored
\* intervals are those of before the call: a step that leaves the call
\* unfinished changes nothing in valid_intervals.
C8_OldResultUntilDone ==
    [][(pc' # "idle") => (valid_intervals' = valid_intervals)]_vars

\* C9 as claimed: a parameters assignment that is rejected leaves both
\* signal_duration and signal_separation as they were.
C9_RejectedKeepsBoth ==
    [][(last'.op = "parameters" /\ last'.outcome # "ok")
         => (signal_duration' = signal_duration
             /\ signal_separation' = signal_separation)]_vars

\* C10 as claimed: update_valid_intervals, compute_statistics, add_roi and
\* delete_roi never end with an error.
C10_NeverRaises ==
    last.op \in {"update_valid_intervals", "compute_statistics", "add_roi", "delete_roi"}
      => last.outcome \in {"ok", "running"}

\* C11 as claimed: every iteration of the outer scan of a ROI moves the scan
\* index forward (so the pass runs to completion), whatever duration the
\* setters have accepted.
C11_ScanIndexIncreases ==
    [][(pc = "scan" /\ pc' = "scan" /\ k' = k) => comp' > comp]_vars

\* the number of intervals stored, over all names
RECURSIVE CountIntervals(_)
CountIntervals(items) ==
    IF items = <<>> THEN 0
    ELSE Len(Head(items).val) + CountIntervals(Tail(items))

\* the number of statistics records a returned value holds
RecordCount(value) == IF value = None THEN 0 ELSE Len(value)

\* C12 as claimed: compute_statistics returns one record per stored interval.
C12_OneRecordPerInterval ==
    (last.op = "compute_statistics" /\ last.outcome = "ok")
      => RecordCount(last.value) = CountIntervals(valid_intervals.items)

\* C13 as claimed: no reader holds a signal with a not-a-number sample (a
\* flat recording is refused by the constructor).
C13_NoNaNSignal ==
    \A i \in 1..Len(signal) : signal[i] # NaN

\* the calls the registries refuse: a name already present or an object that
\* is not a ROI on an add, an unknown name on a delete
RefusedCall ==
    \/ \E name \in RoiNames, obj \in RoiObjects :
          (HasKey(rois, name) \/ ~IsROI(obj)) /\ AddRoi(name, obj)
    \/ \E name \in ZoneNames, obj \in ZoneObjects :
          (HasKey(excluded_zones, name) \/ ~IsROI(obj)) /\ AddExcludedZone(name, obj)
    \/ \E name \in RoiNames : ~HasKey(rois, name) /\ DeleteRoi(name)
    \/ \E name \in ZoneNames :
          ~HasKey(excluded_zones, name) /\ DeleteExcludedZone(name)

\* C14: an add under a name already present, an add of an object that is not
\* a ROI, and a delete of an unknown name leave rois, excluded_zones and
\* valid_intervals exactly as they were.
C14_RefusedCallsFailSafe ==
    [][RefusedCall => UNCHANGED <<rois, excluded_zones, valid_intervals>>]_vars

\* add_roi has returned on a reader whose two ROIs both have intervals: a
\* successful add leaves an empty list, so this call was a refused one.
C14_Witness ==
    /\ last = Returned("add_roi")
    /\ valid_intervals.kind = "dict"
    /\ Len(rois) = 2
    /\ \A i \in 1..Len(rois) : Stored(i) # <<>>

\* what one run of update_valid_intervals computes from the signal, the ROIs,
\* the excluded zones and the two parameters alone
ResultOfRun ==
    [i \in 1..Len(rois) |->
       [name |-> rois[i].name, val |-> FilterIntervals(Candidates(rois[i].val))]]

\* C15: whenever update_valid_intervals has returned, the mapping is the one
\* determined by signal, ROIs, excluded zones and parameters (same names, same
\* order, same lists), whatever an earlier run had left in it: a re-run on
\* unchanged inputs reproduces the previous run's mapping.
C15_RerunIdentical ==
    AfterUpdate => valid_intervals.items = ResultOfRun

\* a re-run is under way: the first ROI is being scanned while the second
\* still holds the intervals of the previous run
C15_Witness ==
    /\ pc = "scan"
    /\ k = 1
    /\ Len(rois) = 2
    /\ Stored(1) # <<>>
    /\ Stored(2) # <<>>

\* the names of a registry in insertion order, and those other than name
NamesInOrder(d) == [i \in 1..Len(d) |-> d[i].name]

OtherNames(d, name) == SelectSeq(NamesInOrder(d), LAMBDA n : n # name)

\* C16: delete_roi(name) of a registered ROI removes the ROI and the intervals
\* stored under its name, keeps every other ROI and every other name's
\* interval list as they were and in their order, and leaves the excluded
\* zones unchanged.
C16_DeleteRoiFrame ==
    [][\A name \in RoiNames :
          (HasKey(rois, name) /\ DeleteRoi(name))
            => /\ ~HasKey(rois', name)
               /\ ~HasKey(valid_intervals'.items, name)
               /\ NamesInOrder(rois') = OtherNames(rois, name)
               /\ \A i \in 1..Len(rois') : Get(rois', rois'[i].name) = Get(rois, rois'[i].name)
               /\ NamesInOrder(valid_intervals'.items) =
                     OtherNames(valid_intervals.items, name)
               /\ \A i \in 1..Len(valid_intervals'.items) :
                     valid_intervals'.items[i].val =
                        Get(valid_intervals.items, valid_intervals'.items[i].name)
               /\ UNCHANGED excluded_zones]_vars

\* delete_roi has returned after an update over two ROIs (k = 3): one ROI is
\* left, with the intervals that update stored for it, beside an excluded zone
C16_Witness ==
    /\ last = Returned("delete_roi")
    /\ valid_intervals.kind = "dict"
    /\ k = 3
    /\ Len(rois) = 1
    /\ Stored(1) # <<>>
    /\ excluded_zones # <<>>

\* u can be obtained from v by dropping elements, the others kept as they are
\* and in their order
RECURSIVE IsSubsequence(_, _)
IsSubsequence(u, v) ==
    IF u = <<>> THEN TRUE
    ELSE IF v = <<>> THEN FALSE
    ELSE IF Head(u) = Head(v) THEN IsSubsequence(Tail(u), Tail(v))
    ELSE IsSubsequence(u, Tail(v))

\* C17: the step that filters the candidates of one name (exclusion pass,
\* then separation pass) stores a subsequence of them: intervals are dropped,
\* never clipped, merged or reordered; the other names' lists are untouched.
C17_FilterOnlyDrops ==
    [][(pc = "filter" /\ k' = k + 1)
         => /\ IsSubsequence(valid_intervals'.items[k].val, valid_intervals.items[k].val)
            /\ \A i \in 1..Len(valid_intervals.items) :
                  i # k => valid_intervals'.items[i] = valid_intervals.items[i]]_vars

\* the first name's candidates have been filtered: some were dropped, some
\* kept, and an excluded zone is registered
C17_Witness ==
    /\ pc = "filter"
    /\ k = 2
    /\ signal_duration >= 0
    /\ excluded_zones # <<>>
    /\ Stored(1) # <<>>
    /\ Len(Stored(1)) + 2 <= Len(Candidates(rois[1].val))

\* C18: with signal_duration >= 0, at every moment every interval stored in
\* valid_intervals is a non-empty half-open index pair inside the signal,
\* 0 <= start < end <= len(signal), and within one name the intervals are in
\* strictly ascending start order and pairwise disjoint.
C18_WellFormedIntervals ==
    signal_duration >= 0 =>
      \A i \in 1..Len(valid_intervals.items) :
         LET v == valid_intervals.items[i].val
         IN  /\ \A j \in 1..Len(v) :
                   0 <= v[j][1] /\ v[j][1] < v[j][2] /\ v[j][2] <= Len(signal)
             /\ \A j \in 1..(Len(v) - 1) :
                   v[j][1] < v[j + 1][1] /\ v[j][2] <= v[j + 1][1]

\* an update has returned with at least two intervals under one name, the
\* second starting where the first ends
C18_Witness ==
    /\ AfterUpdate
    /\ signal_duration >= 0
    /\ \E i \in 1..Len(valid_intervals.items) :
          LET v == valid_intervals.items[i].val
          IN  Len(v) >= 2 /\ v[1][2] = v[2][1]

\* C19 as claimed: at every moment valid_intervals is a mapping whose names
\* are the names of the registered ROIs, in the same insertion order.
C19_RegistryConsistent ==
    /\ valid_intervals.kind = "dict"
    /\ NamesInOrder(valid_intervals.items) = NamesInOrder(rois)

\* the operations that analyse the recording
AnalysisOps == {"update_valid_intervals", "compute_statistics", "get_filtered_signal"}

\* C20: no step of update_valid_intervals, compute_statistics or
\* get_filtered_signal changes the signal, the time axis, the ROIs, the
\* excluded zones or the two parameters; the steps of compute_statistics and
\* get_filtered_signal do not change valid_intervals either.
C20_AnalysisLeavesInputs ==
    [][last'.op \in AnalysisOps
         => /\ UNCHANGED <<signal, times, rois, excluded_zones,
                           signal_duration, signal_separation>>
            /\ last'.op # "update_valid_intervals" => UNCHANGED valid_intervals]_vars

\* get_filtered_signal has returned on a reader holding a ROI, an excluded
\* zone and computed intervals
C20_Witness ==
    /\ last = Returned("get_filtered_signal")
    /\ valid_intervals.kind = "dict"
    /\ rois # <<>>
    /\ excluded_zones # <<>>
    /\ \E i \in 1..Len(rois) : Stored(i) # <<>>

====
